---- MODULE Spec2Model ----
(***************************************************************************)
(* The multi-objective training orchestrator of multitask_classifier.py:   *)
(* the main script (contrastive call of train_multitask, fine-tuning call, *)
(* test_multitask), the epoch loop with its checkpoint decision, the       *)
(* concurrent trainer train_multiple (sum mode and gradient surgery) and   *)
(* the sequential trainers train_sts / train_sst / train_para.             *)
(*                                                                         *)
(* Abstractions.  The Model State is a version number: every               *)
(* optimizer.step() yields a new version.  Losses, dev metrics and         *)
(* gradients are produced by the external encoder/evaluator and are drawn  *)
(* from small integer sets.  A DataLoader with shuffle=True yields the     *)
(* examples of its dataset in a random order without replacement, which is *)
(* modelled by drawing each batch from the examples not yet yielded.       *)
(***************************************************************************)
EXTENDS Integers, Sequences, FiniteSets, TLC

\* ---------------------------------------------------------------- bounds
MaxLen == 3        \* largest train dataset, in examples
BatchSize == 2     \* args.batch_size
MaxEpochs == 2     \* args.epochs

\* ------------------------------------------------------------- constants
Tasks == {"sst", "sts", "para"}
ZipOrder == <<"sst", "sts", "para">>     \* order of the zip in train_multiple
SeqOrder == <<"sts", "sst", "para">>     \* order of the sequential trainers
Options == {"pretrain", "finetune"}
LossVals == {0, 1}                       \* a result of calculate_loss
AccVals == {0, 1}                        \* an accuracy (sst, para)
CorrVals == {-1, 0, 1}                   \* a correlation (sts)
\* the gradients a task may have on the shared parameter: a conflicting
\* pair (inner product -1), an orthogonal pair and an agreeing pair
Vec == {<<1, 0>>, <<-1, 1>>, <<0, 1>>}
NoFile == [exists |-> FALSE]
NoMetric == -9

VARIABLES
  option,          \* args.option
  epochs,          \* args.epochs
  do_sequential,   \* train_multitask's flag
  do_grad_surgery, \* train_multitask's flag
  data_len,        \* len of the loaded train data of each task
  pc,              \* position of the script
  call,            \* which call of train_multitask: "contrastive" / "finetune"
  ckpt,            \* the file args.filepath
  ckpt_dev,        \* history: the combined dev metric of the content of ckpt
  train_data,      \* the train dataset of each task (example ids, in order)
  config,          \* the option the model was constructed with
  model,           \* Model State (version)
  optim,           \* optimizer state (steps taken by this optimizer)
  rng,             \* global RNG state (number of draws so far)
  best_dev_acc,
  epoch,
  dev_acc,         \* combined dev metric
  dev,             \* per-task dev metric measured in the current epoch
  cur,             \* sequential mode: index into SeqOrder of the running trainer
  remaining,       \* examples each train DataLoader iterator has yet to yield
  batch,           \* the batch each iterator yielded last
  losses,          \* the per-task results of calculate_loss
  loss,            \* the loss that is back-propagated and logged
  num_batches,
  grad_acc,        \* backward passes accumulated in .grad since zero_grad
  grads,           \* surgery: per-task gradients on the shared parameter
  update,          \* surgery: the merged gradient the step applies
  backward_n,      \* backward passes of the current batch
  step_n,          \* optimizer steps of the current batch
  trained,         \* the examples of each task trained on in this epoch
  n_trained,       \* how many examples of each task were trained on in it
  eval_model,      \* the Model State each dev metric was measured on
  saved,           \* whether the last checkpoint decision called save_model
  type,            \* calculate_loss: the task the batch belongs to
  unsupervised,    \* calculate_loss: its flag
  supervised,      \* calculate_loss: its flag
  b_ids,           \* calculate_loss: the examples of the batch, in batch order
  embeds,          \* calculate_loss: the results of its model.forward calls
  cos_sim,         \* calculate_loss: the similarity matrices handed to the loss
  labels           \* calculate_loss: the labels handed to the loss

cfgVars == <<option, epochs, do_sequential, do_grad_surgery, data_len>>
runVars == <<train_data, config, model, optim, best_dev_acc, epoch>>
devVars == <<dev_acc, dev, eval_model, saved>>
batchVars == <<cur, remaining, batch, losses, loss, num_batches, grad_acc,
               grads, update, backward_n, step_n>>
seenVars == <<trained, n_trained>>
scriptVars == <<cfgVars, call, ckpt, ckpt_dev, runVars, devVars, batchVars, seenVars>>
clVars == <<type, unsupervised, supervised, b_ids, embeds, cos_sim, labels>>
vars == <<scriptVars, pc, rng, clVars>>

\* --------------------------------------------------------------- helpers
Min(a, b) == IF a < b THEN a ELSE b
Min3(a, b, c) == Min(a, Min(b, c))
Range(s) == {s[i] : i \in 1..Len(s)}
NoneOf == [t \in Tasks |-> NoMetric]
Empty == [t \in Tasks |-> {}]
ZeroVec == <<0, 0>>
NoGrads == [t \in Tasks |-> ZeroVec]
NoUpdate == [v |-> ZeroVec, d |-> 1]

\* ------------------------------------------------- pure parts of the code
\* load_multitask_data: the examples of a train file, in file order
Dataset(n) == [i \in 1..n |-> i]

\* train_multitask: min_len = min(len(sst), len(sts), len(para))
MinLen(len) == Min3(len["sst"], len["sts"], len["para"])

\* a slice that stops one example short
Truncate_Short(data, k) == SubSeq(data, 1, Min(k, Len(data)) - 1)

\* a slice that keeps the last examples instead of the first
Truncate_Tail(data, k) ==
  SubSeq(data, Len(data) - Min(k, Len(data)) + 1, Len(data))

\* train_multitask: data[:min_len]
Truncate(data, k) == SubSeq(data, 1, Min(k, Len(data)))

\* a truncation that is applied in sequential mode as well
TrainData_Truncating(len, sequential) ==
  [t \in Tasks |-> Truncate(Dataset(len[t]), MinLen(len))]

\* train_multitask: the datasets handed to load_data
TrainData(len, sequential) ==
  IF ~sequential
    THEN [t \in Tasks |-> Truncate(Dataset(len[t]), MinLen(len))]
    ELSE [t \in Tasks |-> Dataset(len[t])]

\* DataLoader(shuffle=True, batch_size=args.batch_size): the batches an
\* iterator with the examples rem left may yield next (drop_last is False)
NextBatches(rem) ==
  {b \in SUBSET rem : Cardinality(b) = Min(BatchSize, Cardinality(rem))}

\* the objective flags of the two calls of the main script: unsupervised is
\* True in the first call only, supervised is False in both
Unsupervised == call = "contrastive"
LoadModel == call = "finetune"

Supervised == FALSE

\* MultitaskBERT.__init__: the parameter groups with requires_grad.  The
\* three heads are always trainable; the encoder is frozen under 'pretrain'.
Trainable(opt) ==
  {"fc", "fc_paraphrase", "fc_similarity"} \cup
    (IF opt = "pretrain" THEN {} ELSE {"bert"})

\* calculate_loss: the parameter groups the loss of a batch of task t is
\* computed from.  A contrastive loss is built from model.forward alone (the
\* encoder); a task loss goes through the encoder and the task's head.  For
\* 'sst' only the unsupervised flag selects a contrastive loss.
LossParams(t, unsup, sup) ==
  IF t = "sst"
    THEN IF unsup THEN {"bert"} ELSE {"bert", "fc"}
    ELSE IF unsup THEN {"bert"}
         ELSE IF sup THEN {"bert"}
         ELSE IF t = "sts" THEN {"bert", "fc_similarity"}
         ELSE {"bert", "fc_paraphrase"}

\* whether the loss of a batch of task t depends on a trainable parameter
\* (loss.backward() raises when it depends on none)
RequiresGrad(opt, t, unsup, sup) ==
  LossParams(t, unsup, sup) \cap Trainable(opt) # {}

\* a total that leaves the para loss out
SumLoss_NoPara(l) == l["sst"] + l["sts"]

\* train_multiple, sum mode: loss = sst loss; loss += sts loss; loss += para loss
SumLoss(l) == (l["sst"] + l["sts"]) + l["para"]

\* train_multiple, surgery mode: loss = sum(losses)
SurgeryLoss(l) == ((0 + l["sst"]) + l["sts"]) + l["para"]

\* a combined metric that leaves the para accuracy out
CombinedDev_NoPara(m) == m["sst"] + m["sts"]

\* train_multiple: dev_acc = sst_dev_acc + sts_dev_acc + para_dev_acc
CombinedDev(m) == m["sst"] + m["sts"] + m["para"]

\* train_multitask, sequential: dev_acc = sst_dev_acc + sts_dev_acc + para_dev_acc
SeqCombinedDev(m) == m["sst"] + m["sts"] + m["para"]

\* a loop body that does not clear the gradients
ZeroGrad_Missing(acc) == acc

\* optimizer.zero_grad(): nothing is accumulated in .grad afterwards
ZeroGrad(acc) == 0

\* a decision that saves after every epoch
ShouldSave_Always(d, best) == TRUE

\* a comparison that also saves on a tie
ShouldSave_OnTie(d, best) == d >= best

\* train_multitask: if dev_acc > best_dev_acc
ShouldSave(d, best) == d > best

\* save_model: the content written to args.filepath
SaveInfo == [exists |-> TRUE, model |-> model, optim |-> optim,
             config |-> config, rng |-> rng]

\* the metric each task's evaluator returns
MetricVals(t) == IF t = "sts" THEN CorrVals ELSE AccVals

\* ------------------------------------------------- gradient surgery
\* A gradient on the shared parameter is a pair of integers; a projected
\* gradient is a pair of rationals v / d with d > 0.
Dot(a, b) == a[1] * b[1] + a[2] * b[2]
Q(a) == [v |-> a, d |-> 1]

\* a projection that is applied whatever the sign of the inner product
Project_Always(a, b) ==
  LET dp == Dot(a.v, b)
      nn == Dot(b, b)
  IN  [v |-> <<a.v[1] * nn - dp * b[1], a.v[2] * nn - dp * b[2]>>,
       d |-> a.d * nn]

\* project a onto the plane orthogonal to b when they conflict:
\* a - (a.b / b.b) b
Project(a, b) ==
  LET dp == Dot(a.v, b)
      nn == Dot(b, b)
  IN  IF dp < 0
        THEN [v |-> <<a.v[1] * nn - dp * b[1], a.v[2] * nn - dp * b[2]>>,
              d |-> a.d * nn]
        ELSE a

\* the tasks other than ZipOrder[i], in the order of the losses list
Others(i) == SelectSeq(ZipOrder, LAMBDA t : t # ZipOrder[i])

\* the gradient of task ZipOrder[i] after the projections against every
\* other task's original gradient, in order
Projected(g, i) ==
  LET o == Others(i)
  IN  Project(Project(Q(g[ZipOrder[i]]), g[o[1]]), g[o[2]])

QAdd(a, b) ==
  [v |-> <<a.v[1] * b.d + b.v[1] * a.d, a.v[2] * b.d + b.v[2] * a.d>>,
   d |-> a.d * b.d]

\* the merged gradient: the sum of the projected per-task gradients
Merged(g) == QAdd(QAdd(Projected(g, 1), Projected(g, 2)), Projected(g, 3))

\* the per-task gradients a backward pass may produce on the shared
\* parameter: none (zero) when the encoder is frozen
GradChoices(opt) ==
  IF opt = "finetune" THEN [Tasks -> Vec] ELSE {NoGrads}

\* ------------------------------------------------------------------ Init
\* The state as the script starts: the arguments, the two flags of
\* train_multitask, the train files, and no checkpoint file yet.  Gradient
\* surgery is a mode of train_multiple: the sequential trainers never call
\* pc_backward, so the flag is only varied in concurrent mode.  Every train
\* file holds at least one example (with none, train_loss / num_batches
\* divides by zero), and args.epochs is the bound MaxEpochs.
Init ==
  /\ option \in Options
  /\ epochs = MaxEpochs
  /\ do_sequential \in BOOLEAN
  /\ do_grad_surgery \in IF do_sequential THEN {FALSE} ELSE BOOLEAN
  /\ data_len \in [Tasks -> 1..MaxLen]
  /\ pc = "main"
  /\ call = "none"
  /\ ckpt = NoFile
  /\ ckpt_dev = NoMetric
  /\ train_data = [t \in Tasks |-> <<>>]
  /\ config = "none"
  /\ model = 0
  /\ optim = 0
  /\ rng = 0
  /\ best_dev_acc = 0
  /\ epoch = 0
  /\ dev_acc = 0
  /\ dev = NoneOf
  /\ cur = 0
  /\ remaining = Empty
  /\ batch = Empty
  /\ losses = NoneOf
  /\ loss = 0
  /\ num_batches = 0
  /\ grad_acc = 0
  /\ grads = NoGrads
  /\ update = NoUpdate
  /\ backward_n = 0
  /\ step_n = 0
  /\ trained = Empty
  /\ n_trained = [t \in Tasks |-> 0]
  /\ eval_model = NoneOf
  /\ saved = FALSE
  /\ type = "none"
  /\ unsupervised = FALSE
  /\ supervised = FALSE
  /\ b_ids = <<>>
  /\ embeds = <<>>
  /\ cos_sim = <<>>
  /\ labels = <<>>

\* --------------------------------------------------------- the main script
\* __main__: seed, then the contrastive call (do_contrastive is True)
Main ==
  /\ pc = "main"
  /\ call' = "contrastive"
  /\ pc' = "load_data"
  /\ UNCHANGED <<clVars, seenVars, cfgVars, ckpt, ckpt_dev, rng, runVars, devVars, batchVars>>

\* train_multitask: load the data, truncate in concurrent mode, build the
\* data loaders
LoadData ==
  /\ pc = "load_data"
  /\ train_data' = TrainData(data_len, do_sequential)
  /\ pc' = "init_model"
  /\ UNCHANGED <<clVars, seenVars, cfgVars, call, ckpt, ckpt_dev, rng, config, model, optim,
                 best_dev_acc, epoch, devVars, batchVars>>

\* train_multitask: load the model from args.filepath or build a new one,
\* create the optimizer, best_dev_acc = 0.  torch.load of a missing file
\* raises and ends the script.  Of the saved content only 'model_config' and
\* 'model' are read; MultitaskBERT(config) initialises its heads from the
\* global generator, the optimizer is a new AdamW, and no generator state is
\* set from the file.
InitModel ==
  /\ pc = "init_model"
  /\ IF LoadModel /\ ~ckpt.exists
       THEN /\ pc' = "aborted"
            /\ UNCHANGED <<config, model, optim, best_dev_acc, epoch, rng>>
       ELSE /\ pc' = "epoch"
            /\ config' = IF LoadModel THEN ckpt.config ELSE option
            /\ model' = IF LoadModel THEN ckpt.model ELSE 0
            /\ optim' = 0
            /\ rng' = rng + 1
            /\ best_dev_acc' = 0
            /\ epoch' = 0
  /\ UNCHANGED <<clVars, seenVars, cfgVars, call, ckpt, ckpt_dev, train_data, devVars, batchVars>>

\* train_multitask: for epoch in range(epochs): model.train(), and the
\* trainer of the mode starts: train_multiple zips the three loaders, the
\* sequential mode starts train_sts
BeginEpoch ==
  /\ pc = "epoch"
  /\ epoch < epochs
  /\ IF do_sequential
       THEN /\ cur' = 1
            /\ remaining' = [t \in Tasks |->
                 IF t = SeqOrder[1] THEN Range(train_data[t]) ELSE {}]
            /\ pc' = "seq_next"
       ELSE /\ cur' = 0
            /\ remaining' = [t \in Tasks |-> Range(train_data[t])]
            /\ pc' = "next"
  /\ num_batches' = 0
  /\ trained' = Empty
  /\ n_trained' = [t \in Tasks |-> 0]
  /\ rng' = rng + 1
  /\ saved' = FALSE
  /\ UNCHANGED <<clVars, cfgVars, call, ckpt, ckpt_dev, runVars, dev_acc, dev, eval_model,
                 batch, losses, loss, grad_acc, grads, update, backward_n,
                 step_n>>

\* train_multitask returns after the last epoch; the main script goes on
\* with the fine-tuning call, then with test_multitask
ReturnTrain ==
  /\ pc = "epoch"
  /\ epoch >= epochs
  /\ IF call = "contrastive"
       THEN call' = "finetune" /\ pc' = "load_data"
       ELSE call' = "test" /\ pc' = "test"
  /\ UNCHANGED <<clVars, seenVars, cfgVars, ckpt, ckpt_dev, rng, runVars, devVars, batchVars>>

\* ------------------------------------------- train_multiple (concurrent)
\* the for statement over zip(sst, sts, para) and optimizer.zero_grad():
\* the zip yields a triple while every loader has a batch left
NextTriple ==
  /\ pc = "next"
  /\ IF \A t \in Tasks : remaining[t] # {}
       THEN /\ \E b1 \in NextBatches(remaining["sst"]),
                    b2 \in NextBatches(remaining["sts"]),
                    b3 \in NextBatches(remaining["para"]) :
                 /\ batch' = [sst |-> b1, sts |-> b2, para |-> b3]
                 /\ remaining' = [t \in Tasks |-> remaining[t] \ batch'[t]]
                 /\ trained' = [t \in Tasks |-> trained[t] \cup batch'[t]]
                 /\ n_trained' = [t \in Tasks |->
                      n_trained[t] + Cardinality(batch'[t])]
            /\ grad_acc' = ZeroGrad(grad_acc)
            /\ backward_n' = 0
            /\ step_n' = 0
            /\ pc' = "loss"
       ELSE /\ pc' = "eval"
            /\ UNCHANGED <<remaining, batch, grad_acc, backward_n, step_n,
                           seenVars>>
  /\ UNCHANGED <<clVars, cfgVars, call, ckpt, ckpt_dev, rng, runVars, devVars, cur, losses,
                 loss, num_batches, grads, update>>

\* the three calls of calculate_loss on the triple, and their total
Loss ==
  /\ pc = "loss"
  /\ \E l \in [Tasks -> LossVals] :
       /\ losses' = l
       /\ loss' = IF do_grad_surgery THEN SurgeryLoss(l) ELSE SumLoss(l)
  /\ batch' = Empty
  /\ rng' = rng + 1
  /\ pc' = "backward"
  /\ UNCHANGED <<clVars, seenVars, cfgVars, call, ckpt, ckpt_dev, runVars, devVars, cur, remaining,
                 num_batches, grad_acc, grads, update, backward_n, step_n>>

\* sum mode: loss.backward(); it raises when the loss, the sum of the three
\* task losses, depends on no trainable parameter
Backward ==
  /\ pc = "backward"
  /\ ~do_grad_surgery
  /\ IF \E t \in Tasks : RequiresGrad(config, t, Unsupervised, Supervised)
       THEN /\ grad_acc' = grad_acc + 1
            /\ backward_n' = backward_n + 1
            /\ pc' = "step"
       ELSE /\ pc' = "aborted"
            /\ UNCHANGED <<grad_acc, backward_n>>
  /\ UNCHANGED <<clVars, seenVars, cfgVars, call, ckpt, ckpt_dev, rng, runVars, devVars, cur, remaining,
                 batch, losses, loss, num_batches, grads, update, step_n>>

\* surgery mode: optimizer.pc_backward(losses): one backward pass per task
\* loss, the pairwise projections, and the merged gradient
PCBackward ==
  /\ pc = "backward"
  /\ do_grad_surgery
  /\ IF \A t \in Tasks : RequiresGrad(config, t, Unsupervised, Supervised)
       THEN /\ \E g \in GradChoices(config) :
                 /\ grads' = g
                 /\ update' = Merged(g)
            /\ losses' = NoneOf
            /\ grad_acc' = grad_acc + 1
            /\ backward_n' = backward_n + Cardinality(Tasks)
            /\ pc' = "step"
       ELSE /\ pc' = "aborted"
            /\ UNCHANGED <<grads, update, losses, grad_acc, backward_n>>
  /\ UNCHANGED <<clVars, seenVars, cfgVars, call, ckpt, ckpt_dev, rng, runVars, devVars, cur, remaining,
                 batch, loss, num_batches, step_n>>

\* a loop body that calls optimizer.step() twice
Step_Twice ==
  /\ pc = "step"
  /\ model' = model + 2
  /\ optim' = optim + 2
  /\ step_n' = step_n + 2
  /\ num_batches' = num_batches + 1
  /\ losses' = NoneOf
  /\ loss' = 0
  /\ grads' = NoGrads
  /\ update' = NoUpdate
  /\ pc' = "next"
  /\ UNCHANGED <<clVars, seenVars, cfgVars, call, ckpt, ckpt_dev, rng, train_data, config,
                 best_dev_acc, epoch, devVars, cur, remaining, batch,
                 grad_acc, backward_n>>

\* optimizer.step(), train_loss += loss.item(), num_batches += 1
Step ==
  /\ pc = "step"
  /\ model' = model + 1
  /\ optim' = optim + 1
  /\ step_n' = step_n + 1
  /\ num_batches' = num_batches + 1
  /\ losses' = NoneOf
  /\ loss' = 0
  /\ grads' = NoGrads
  /\ update' = NoUpdate
  /\ pc' = "next"
  /\ UNCHANGED <<clVars, seenVars, cfgVars, call, ckpt, ckpt_dev, rng, train_data, config, best_dev_acc,
                 epoch, devVars, cur, remaining, batch, grad_acc, backward_n>>

\* the evaluations after the loop and the combined accuracy
Evaluate ==
  /\ pc = "eval"
  /\ \E m \in [Tasks -> -1..1] :
       /\ \A t \in Tasks : m[t] \in MetricVals(t)
       /\ dev' = m
       /\ dev_acc' = CombinedDev(m)
  /\ eval_model' = [t \in Tasks |-> model]
  /\ rng' = rng + 1
  /\ pc' = "checkpoint"
  /\ UNCHANGED <<clVars, seenVars, cfgVars, call, ckpt, ckpt_dev, runVars, saved, batchVars>>

\* ------------------------------------------------ the checkpoint decision
\* if dev_acc > best_dev_acc: best_dev_acc = dev_acc; save_model(...)
Checkpoint ==
  /\ pc = "checkpoint"
  /\ IF ShouldSave(dev_acc, best_dev_acc)
       THEN /\ best_dev_acc' = dev_acc
            /\ ckpt' = SaveInfo
            /\ ckpt_dev' = dev_acc
            /\ saved' = TRUE
       ELSE /\ saved' = FALSE
            /\ UNCHANGED <<best_dev_acc, ckpt, ckpt_dev>>
  /\ epoch' = epoch + 1
  /\ dev' = NoneOf
  /\ eval_model' = NoneOf
  /\ pc' = "epoch"
  /\ UNCHANGED <<clVars, seenVars, cfgVars, call, rng, train_data, config, model, optim,
                 dev_acc, batchVars>>

\* ------------------------- train_sts, train_sst, train_para (sequential)
\* the for statement over one task's loader and optimizer.zero_grad()
SeqNext ==
  /\ pc = "seq_next"
  /\ LET t == SeqOrder[cur]
     IN  IF remaining[t] # {}
           THEN /\ \E b \in NextBatches(remaining[t]) :
                     /\ batch' = [Empty EXCEPT ![t] = b]
                     /\ remaining' = [remaining EXCEPT ![t] = @ \ b]
                     /\ trained' = [trained EXCEPT ![t] = @ \cup b]
                     /\ n_trained' = [n_trained EXCEPT
                          ![t] = @ + Cardinality(b)]
                /\ grad_acc' = ZeroGrad(grad_acc)
                /\ backward_n' = 0
                /\ step_n' = 0
                /\ pc' = "seq_loss"
           ELSE /\ pc' = "seq_eval"
                /\ UNCHANGED <<remaining, batch, grad_acc, backward_n, step_n,
                               seenVars>>
  /\ UNCHANGED <<clVars, cfgVars, call, ckpt, ckpt_dev, rng, runVars, devVars, cur, losses,
                 loss, num_batches, grads, update>>

\* loss = calculate_loss(batch, device, model, task, ...)
SeqLoss ==
  /\ pc = "seq_loss"
  /\ \E l \in LossVals :
       /\ losses' = [NoneOf EXCEPT ![SeqOrder[cur]] = l]
       /\ loss' = l
  /\ batch' = Empty
  /\ rng' = rng + 1
  /\ pc' = "seq_backward"
  /\ UNCHANGED <<clVars, seenVars, cfgVars, call, ckpt, ckpt_dev, runVars, devVars, cur, remaining,
                 num_batches, grad_acc, grads, update, backward_n, step_n>>

\* loss.backward()
SeqBackward ==
  /\ pc = "seq_backward"
  /\ IF RequiresGrad(config, SeqOrder[cur], Unsupervised, Supervised)
       THEN /\ grad_acc' = grad_acc + 1
            /\ backward_n' = backward_n + 1
            /\ pc' = "seq_step"
       ELSE /\ pc' = "aborted"
            /\ UNCHANGED <<grad_acc, backward_n>>
  /\ UNCHANGED <<clVars, seenVars, cfgVars, call, ckpt, ckpt_dev, rng, runVars, devVars, cur, remaining,
                 batch, losses, loss, num_batches, grads, update, step_n>>

\* optimizer.step(), the loss is added to the task's train loss,
\* num_batches += 1
SeqStep ==
  /\ pc = "seq_step"
  /\ model' = model + 1
  /\ optim' = optim + 1
  /\ step_n' = step_n + 1
  /\ num_batches' = num_batches + 1
  /\ losses' = NoneOf
  /\ loss' = 0
  /\ pc' = "seq_next"
  /\ UNCHANGED <<clVars, seenVars, cfgVars, call, ckpt, ckpt_dev, rng, train_data, config, best_dev_acc,
                 epoch, devVars, cur, remaining, batch, grad_acc, grads,
                 update, backward_n>>

\* the evaluations that end one trainer; the next trainer starts, or the
\* epoch goes on to combine the metrics
SeqEval ==
  /\ pc = "seq_eval"
  /\ \E m \in MetricVals(SeqOrder[cur]) :
       dev' = [dev EXCEPT ![SeqOrder[cur]] = m]
  /\ eval_model' = [eval_model EXCEPT ![SeqOrder[cur]] = model]
  /\ rng' = rng + 1
  /\ IF cur < Len(SeqOrder)
       THEN /\ cur' = cur + 1
            /\ remaining' = [t \in Tasks |->
                 IF t = SeqOrder[cur + 1] THEN Range(train_data[t]) ELSE {}]
            /\ num_batches' = 0
            /\ pc' = "seq_next"
       ELSE /\ pc' = "combine"
            /\ UNCHANGED <<cur, remaining, num_batches>>
  /\ UNCHANGED <<clVars, seenVars, cfgVars, call, ckpt, ckpt_dev, runVars, dev_acc, saved, batch, losses,
                 loss, grad_acc, grads, update, backward_n, step_n>>

\* dev_acc = sst_dev_acc + sts_dev_acc + para_dev_acc
Combine ==
  /\ pc = "combine"
  /\ dev_acc' = SeqCombinedDev(dev)
  /\ pc' = "checkpoint"
  /\ UNCHANGED <<clVars, seenVars, cfgVars, call, ckpt, ckpt_dev, rng, runVars, dev, eval_model, saved,
                 batchVars>>

\* ---------------------------------------------------------- test_multitask
\* torch.load(args.filepath) and model.load_state_dict(saved['model'])
TestMultitask ==
  /\ pc = "test"
  /\ IF ckpt.exists
       THEN /\ config' = ckpt.config
            /\ model' = ckpt.model
            /\ rng' = rng + 1
            /\ pc' = "done"
       ELSE /\ pc' = "aborted"
            /\ UNCHANGED <<config, model, rng>>
  /\ UNCHANGED <<clVars, seenVars, cfgVars, call, ckpt, ckpt_dev, train_data, optim, best_dev_acc,
                 epoch, devVars, batchVars>>

Next ==
  \/ Main
  \/ LoadData
  \/ InitModel
  \/ BeginEpoch
  \/ ReturnTrain
  \/ NextTriple
  \/ Loss
  \/ Backward
  \/ PCBackward
  \/ Step
  \/ Evaluate
  \/ Checkpoint
  \/ SeqNext
  \/ SeqLoss
  \/ SeqBackward
  \/ SeqStep
  \/ SeqEval
  \/ Combine
  \/ TestMultitask

Spec == Init /\ [][Next]_vars

\* ---------------------------------------------------------- calculate_loss
\* One call of calculate_loss on a batch, step by step.  A sentence is a pair
\* <<example, side>> (side 1 or 2 of a pair example; side 1 for 'sst'); the
\* result of model.forward for one sentence is the sentence together with the
\* number of the forward call (dropout makes two calls on one sentence
\* differ); an entry of a similarity matrix is the pair of embeddings it
\* compares.
Sents(ids, side) == [i \in 1..Len(ids) |-> <<ids[i], side>>]

\* model.forward(ids, mask), the k-th forward call of this calculate_loss
Forward(sents, k) == [i \in 1..Len(sents) |-> [s |-> sents[i], pass |-> k]]

\* b_ids2[shuffled_indices]
Index(x, idx) == [j \in 1..Len(idx) |-> x[idx[j]]]

\* torch.randperm(n): the permutations of 1..n
Randperm(n) ==
  {f \in [1..n -> 1..n] : \A i, j \in 1..n : f[i] = f[j] => i = j}

\* cosine_similarity_embedding(a.unsqueeze(1), b.unsqueeze(0)): entry (i, j)
\* compares a[i] with b[j]
CosSim(a, b) == [i \in 1..Len(a) |-> [j \in 1..Len(b) |-> <<a[i], b[j]>>]]

\* a concatenation that puts the negative columns first
Cat1_NegativeFirst(A, B) == [i \in 1..Len(A) |-> B[i] \o A[i]]

\* torch.cat([A, B], 1)
Cat1(A, B) == [i \in 1..Len(A) |-> A[i] \o B[i]]

\* torch.arange(n)
Arange(n) == [i \in 1..n |-> i - 1]

\* which branch of calculate_loss a call takes
BranchOf(t, unsup, sup) ==
  IF unsup THEN "unsupervised"
  ELSE IF sup /\ t # "sst" THEN "supervised"
  ELSE "task"

\* the batches a loader may hand over: up to BatchSize distinct examples
Batches ==
  UNION {{b \in [1..n -> 1..MaxLen] : \A i, j \in 1..n : b[i] = b[j] => i = j}
         : n \in 1..BatchSize}

\* a call of calculate_loss on any batch of any task, with any flags
InitLoss ==
  /\ option = "finetune"
  /\ epochs = MaxEpochs
  /\ do_sequential = FALSE
  /\ do_grad_surgery = FALSE
  /\ data_len = [t \in Tasks |-> MaxLen]
  /\ pc = "calculate_loss"
  /\ call = "none"
  /\ ckpt = NoFile
  /\ ckpt_dev = NoMetric
  /\ train_data = [t \in Tasks |-> <<>>]
  /\ config = "finetune"
  /\ model = 0
  /\ optim = 0
  /\ rng = 0
  /\ best_dev_acc = 0
  /\ epoch = 0
  /\ dev_acc = 0
  /\ dev = NoneOf
  /\ cur = 0
  /\ remaining = Empty
  /\ batch = Empty
  /\ losses = NoneOf
  /\ loss = 0
  /\ num_batches = 0
  /\ grad_acc = 0
  /\ grads = NoGrads
  /\ update = NoUpdate
  /\ backward_n = 0
  /\ step_n = 0
  /\ trained = Empty
  /\ n_trained = [t \in Tasks |-> 0]
  /\ eval_model = NoneOf
  /\ saved = FALSE
  /\ type \in Tasks
  /\ unsupervised \in BOOLEAN
  /\ supervised \in BOOLEAN
  /\ b_ids \in Batches
  /\ embeds = <<>>
  /\ cos_sim = <<>>
  /\ labels = <<>>

\* the unsupervised branch: two forward calls on each sentence of the batch
ForwardUnsupervised ==
  /\ pc = "calculate_loss"
  /\ BranchOf(type, unsupervised, supervised) = "unsupervised"
  /\ embeds' =
       IF type = "sst"
         THEN <<Forward(Sents(b_ids, 1), 1), Forward(Sents(b_ids, 1), 2)>>
         ELSE <<Forward(Sents(b_ids, 1), 1), Forward(Sents(b_ids, 1), 2),
                Forward(Sents(b_ids, 2), 3), Forward(Sents(b_ids, 2), 4)>>
  /\ rng' = rng + 1
  /\ pc' = "cos_sim"
  /\ UNCHANGED <<scriptVars, type, unsupervised, supervised, b_ids, cos_sim,
                 labels>>

\* the supervised branch: the anchors, the positives, and the positives
\* reordered by a random permutation as negatives
ForwardSupervised ==
  /\ pc = "calculate_loss"
  /\ BranchOf(type, unsupervised, supervised) = "supervised"
  /\ \E shuffled_indices \in Randperm(Len(b_ids)) :
       embeds' = <<Forward(Sents(b_ids, 1), 1),
                   Forward(Sents(b_ids, 2), 2),
                   Forward(Index(Sents(b_ids, 2), shuffled_indices), 3)>>
  /\ rng' = rng + 1
  /\ pc' = "cos_sim"
  /\ UNCHANGED <<scriptVars, type, unsupervised, supervised, b_ids, cos_sim,
                 labels>>

\* the task-loss branch: the head's logits against the batch's labels; no
\* similarity matrix is built
TaskLoss ==
  /\ pc = "calculate_loss"
  /\ BranchOf(type, unsupervised, supervised) = "task"
  /\ \E l \in LossVals : loss' = l
  /\ rng' = rng + 1
  /\ pc' = "return"
  /\ UNCHANGED <<cfgVars, call, ckpt, ckpt_dev, runVars, devVars, cur, remaining, batch,
                 losses, num_batches, grad_acc, grads, update, backward_n,
                 step_n, seenVars, clVars>>

\* the similarity matrices of the branch
Similarity ==
  /\ pc = "cos_sim"
  /\ cos_sim' =
       IF BranchOf(type, unsupervised, supervised) = "supervised"
         THEN <<Cat1(CosSim(embeds[1], embeds[2]),
                     CosSim(embeds[1], embeds[3]))>>
         ELSE IF type = "sst"
           THEN <<CosSim(embeds[1], embeds[2])>>
           ELSE <<CosSim(embeds[1], embeds[2]), CosSim(embeds[3], embeds[4])>>
  /\ pc' = "labels"
  /\ UNCHANGED <<scriptVars, rng, type, unsupervised, supervised, b_ids,
                 embeds, labels>>

\* labels = torch.arange(cos_sim.size(0)) and the cross-entropy loss
CrossEntropy ==
  /\ pc = "labels"
  /\ labels' = Arange(Len(cos_sim[1]))
  /\ \E l \in LossVals : loss' = l
  /\ pc' = "return"
  /\ UNCHANGED <<cfgVars, call, ckpt, ckpt_dev, runVars, devVars, cur, remaining, batch,
                 losses, num_batches, grad_acc, grads, update, backward_n,
                 step_n, seenVars, rng, type, unsupervised, supervised, b_ids,
                 embeds, cos_sim>>

NextLoss ==
  \/ ForwardUnsupervised
  \/ ForwardSupervised
  \/ TaskLoss
  \/ Similarity
  \/ CrossEntropy

SpecLoss == InitLoss /\ [][NextLoss]_vars

\* ================================================================ claims
\* the length of a train stream over n examples, in batches
StreamLen(n) == (n + BatchSize - 1) \div BatchSize

\* the examples 1..k of a dataset
Prefix(k) == 1..k

Concurrent == ~do_sequential
SumMode == ~do_sequential /\ ~do_grad_surgery
SurgeryMode == ~do_sequential /\ do_grad_surgery

\* C1: at the checkpoint decision of an epoch, save_model is called if and
\* only if the epoch's combined dev metric strictly exceeds the stored best
\* of the call, and the stored best becomes that metric exactly when the
\* checkpoint is written (otherwise neither the file nor the best changes).
C1_SaveIffStrictlyBetter ==
  [][pc = "checkpoint" =>
       /\ saved' <=> (dev_acc > best_dev_acc)
       /\ saved' => /\ best_dev_acc' = dev_acc
                    /\ ckpt'.exists /\ ckpt'.model = model
       /\ ~saved' => /\ best_dev_acc' = best_dev_acc
                     /\ ckpt' = ckpt]_vars

\* C1 witness: a second epoch whose metric equals the positive stored best
\* written by the first epoch, and which wrote no checkpoint
C1_Witness ==
  /\ pc = "epoch" /\ epoch = 2 /\ ~saved
  /\ ckpt.exists /\ dev_acc = best_dev_acc /\ best_dev_acc > 0

\* C2: every read of the checkpoint (the load of the fine-tuning call and
\* the load of test_multitask) finds a checkpoint written earlier.
C2_EveryReadFindsCheckpoint ==
  ((pc = "init_model" /\ LoadModel) \/ pc = "test") => ckpt.exists

\* C3: in concurrent mode an epoch of train_multiple processes exactly
\* min(L1, L2, L3) aligned triples, L1, L2, L3 being the lengths in batches
\* of the three train streams, in every epoch.
C3_TriplesAreMinLength ==
  Concurrent =>
    LET expected == Min3(StreamLen(data_len["sst"]), StreamLen(data_len["sts"]),
                         StreamLen(data_len["para"]))
    IN  /\ pc \in {"next", "loss", "backward", "step"} => num_batches <= expected
        /\ pc \in {"eval", "checkpoint"} => num_batches = expected

\* C3 witness: the second epoch ends after one triple although the sst
\* stream has two batches
C3_Witness ==
  /\ Concurrent /\ pc = "eval" /\ epoch = 1 /\ num_batches = 1
  /\ data_len = [sst |-> 3, sts |-> 1, para |-> 2]

\* C4: in concurrent mode every example trained on belongs to the first
\* min-length prefix of its task's dataset, and every epoch trains on
\* exactly that prefix, each example once, whatever the shuffles draw.
C4_TrainsOnPrefixOnly ==
  Concurrent =>
    \A t \in Tasks :
      /\ trained[t] \subseteq Prefix(MinLen(data_len))
      /\ batch[t] \subseteq Prefix(MinLen(data_len))
      /\ pc \in {"eval", "checkpoint"} =>
           /\ trained[t] = Prefix(MinLen(data_len))
           /\ n_trained[t] = MinLen(data_len)

\* C4 witness: an epoch that trained on two of the three para examples
C4_Witness ==
  /\ Concurrent /\ pc = "eval" /\ epoch = 1
  /\ data_len = [sst |-> 2, sts |-> 3, para |-> 3]
  /\ trained["para"] = {1, 2}

\* C5: in sum mode the loss that is back-propagated and logged is the sum
\* of the three per-task losses of the triple, and a triple causes one
\* backward pass, then one optimizer step, and no reconciliation.
C5_SumModeTotalLoss ==
  SumMode =>
    /\ pc \in {"backward", "step"} =>
         loss = losses["sst"] + losses["sts"] + losses["para"]
    /\ pc = "step" => backward_n = 1 /\ step_n = 0
    /\ (pc = "next" /\ num_batches > 0) => backward_n = 1 /\ step_n = 1
    /\ grads = NoGrads /\ update = NoUpdate

\* C5 witness: a triple whose three losses are all 1, about to be stepped
C5_Witness ==
  /\ SumMode /\ pc = "step" /\ loss = 3 /\ backward_n = 1
  /\ \A t \in Tasks : losses[t] = 1

\* C6: in surgery mode, for any two task gradients on the shared parameter:
\* with a negative inner product the first one, projected, has inner product
\* zero with the original second one; otherwise it is returned as it was.
\* The update is the sum of the projected per-task gradients, and one
\* optimizer step per triple applies it.
C6_SurgeryProjection ==
  SurgeryMode =>
    /\ pc = "step" =>
         /\ \A a \in Tasks : \A b \in Tasks \ {a} :
              LET p == Project(Q(grads[a]), grads[b])
              IN  /\ Dot(grads[a], grads[b]) < 0 =>
                       p.d > 0 /\ Dot(p.v, grads[b]) = 0
                  /\ Dot(grads[a], grads[b]) >= 0 => p = Q(grads[a])
         /\ LET p1 == Projected(grads, 1)
                p2 == Projected(grads, 2)
                p3 == Projected(grads, 3)
            IN  \A k \in 1..2 :
                  update.v[k] * (p1.d * p2.d * p3.d) =
                    update.d * (p1.v[k] * p2.d * p3.d + p2.v[k] * p1.d * p3.d
                                + p3.v[k] * p1.d * p2.d)
         /\ update.d > 0
         /\ step_n = 0
    /\ (pc = "next" /\ num_batches > 0) => step_n = 1

\* C6 witness: the sst gradient conflicts with the sts gradient and the
\* merged update is about to be stepped
C6_Witness ==
  /\ SurgeryMode /\ pc = "step"
  /\ grads["sst"] = <<1, 0>> /\ grads["sts"] = <<-1, 1>>
  /\ Projected(grads, 1) # Q(grads["sst"])

\* C7: at the checkpoint decision of an epoch, every task's dev metric was
\* measured on the Model State the decision would save: no optimizer step
\* of the epoch came after a dev evaluation of the epoch.
C7_DevMeasuredOnSavedModel ==
  pc = "checkpoint" => \A t \in Tasks : eval_model[t] = model

\* C8: inside the training loop the Model State is changed only by the
\* optimizer step, at most once per batch and after the batch's backward
\* pass; a batch begins only when the one before it was stepped; evaluation
\* and the checkpoint decision leave the Model State unchanged.
C8_OnlyStepChangesModel ==
  [][/\ (model' # model /\ pc \notin {"init_model", "test"}) =>
          /\ pc \in {"step", "seq_step"}
          /\ model' = model + 1
          /\ backward_n >= 1 /\ step_n = 0 /\ step_n' = 1
          /\ num_batches' = num_batches + 1
     /\ (pc' \in {"loss", "seq_loss"} /\ num_batches > 0) => step_n = 1
     /\ pc \in {"eval", "seq_eval", "combine", "checkpoint"} =>
          model' = model]_vars

\* C8 witness: the second batch of a loop has been stepped
C8_Witness ==
  /\ pc \in {"next", "seq_next"} /\ num_batches = 2 /\ step_n = 1
  /\ model >= 2

\* C9: the combined dev metric of the checkpoint decision is the plain sum
\* of the three dev metrics measured in the same epoch, in both modes.
C9_CombinedIsPlainSum ==
  pc = "checkpoint" =>
    /\ \A t \in Tasks : dev[t] \in MetricVals(t)
    /\ dev_acc = dev["sst"] + dev["sts"] + dev["para"]

\* C9 witness: a second epoch whose sum is -1 after a first epoch that
\* stored the best 3
C9_Witness ==
  /\ pc = "checkpoint" /\ epoch = 1 /\ best_dev_acc = 3
  /\ dev = [sst |-> 0, sts |-> -1, para |-> 0] /\ dev_acc = -1

\* C10: in sequential mode every epoch trains the whole sts stream, then
\* the whole sst stream, then the whole para stream, each example once,
\* and no dataset is truncated.
C10_SequentialOrder ==
  do_sequential =>
    /\ pc \notin {"main", "load_data"} =>
         \A t \in Tasks : Len(train_data[t]) = data_len[t]
    /\ \A t \in Tasks : n_trained[t] <= data_len[t]
    /\ pc = "seq_eval" =>
         /\ trained[SeqOrder[cur]] = Prefix(data_len[SeqOrder[cur]])
         /\ n_trained[SeqOrder[cur]] = data_len[SeqOrder[cur]]
         /\ num_batches = StreamLen(data_len[SeqOrder[cur]])
    /\ n_trained["sst"] > 0 => n_trained["sts"] = data_len["sts"]
    /\ n_trained["para"] > 0 =>
         /\ n_trained["sts"] = data_len["sts"]
         /\ n_trained["sst"] = data_len["sst"]
    /\ pc \in {"combine", "checkpoint"} =>
         \A t \in Tasks : /\ trained[t] = Prefix(data_len[t])
                          /\ n_trained[t] = data_len[t]

\* C10 witness: the second epoch has trained three streams of three
\* different lengths to completion
C10_Witness ==
  /\ do_sequential /\ pc = "combine" /\ epoch = 1
  /\ data_len = [sst |-> 1, sts |-> 3, para |-> 2]
  /\ n_trained = data_len

\* C11: a run that resumes from the checkpoint (the fine-tuning call, which
\* loads args.filepath) starts its first epoch with the Model State, the
\* optimizer state, the configuration and the generator state that
\* save_model wrote to the file.
C11_ResumeContinuesFromCheckpoint ==
  (call = "finetune" /\ pc = "epoch" /\ epoch = 0) =>
    /\ model = ckpt.model
    /\ config = ckpt.config
    /\ optim = ckpt.optim
    /\ rng = ckpt.rng

\* C12: a call of train_multitask never ends before its last epoch: it is not
\* left by an exception (the only abort of the script, if any, is the read of
\* test_multitask), and its epoch counter, which advances by one at each
\* checkpoint decision, never passes the epochs it was given.
C12_CallRunsAllEpochs ==
  /\ pc = "aborted" => call \notin {"contrastive", "finetune"}
  /\ epoch <= epochs

\* C13: in a contrastive call of calculate_loss on a batch of N examples the
\* labels are 0..N-1 in order, and row i of every similarity matrix has, at
\* the column its label names, the positive of example i.  Unsupervised: the
\* matrix is N x N and that entry compares two different forward passes of
\* the same sentence of example i.  Supervised: the matrix is N x 2N and that
\* entry lies in the first half and compares side 1 of example i (the
\* anchor) with side 2 of example i from the positive pass, not the
\* negative one.
C13_LabelsNameThePositive ==
  (pc = "return" /\ BranchOf(type, unsupervised, supervised) # "task") =>
    LET N == Len(b_ids) IN
    /\ labels = [i \in 1..N |-> i - 1]
    /\ \A m \in 1..Len(cos_sim) :
         /\ Len(cos_sim[m]) = N
         /\ \A i \in 1..N :
              LET row == cos_sim[m][i]
                  e == row[labels[i] + 1]
              IN  IF BranchOf(type, unsupervised, supervised) = "unsupervised"
                    THEN /\ Len(row) = N
                         /\ e[1].s = e[2].s
                         /\ e[1].s[1] = b_ids[i]
                         /\ e[1].pass # e[2].pass
                    ELSE /\ Len(row) = 2 * N
                         /\ labels[i] + 1 <= N
                         /\ e[1].s = <<b_ids[i], 1>>
                         /\ e[2] = [s |-> <<b_ids[i], 2>>, pass |-> 2]

\* a supervised call on a full batch has returned, with a negative column
\* that holds another example's sentence
C13_Witness ==
  /\ pc = "return"
  /\ BranchOf(type, unsupervised, supervised) = "supervised"
  /\ Len(b_ids) = BatchSize
  /\ Len(cos_sim[1][1]) = 2 * BatchSize
  /\ labels = Arange(BatchSize)
  /\ \E j \in 1..BatchSize : cos_sim[1][1][BatchSize + j][2].s[1] # b_ids[1]

Max(a, b) == IF a > b THEN a ELSE b

\* C14 as stated: over the whole run, every write to args.filepath that
\* replaces an existing checkpoint stores a Model State whose combined dev
\* metric strictly exceeds the metric of the content it replaces.
C14_OverwriteImprovesOnContent ==
  [][(pc = "checkpoint" /\ saved' /\ ckpt.exists) => dev_acc > ckpt_dev]_vars

\* C14, amended: the comparison is against the best of the current call,
\* which restarts at 0 in each call.  The file is written only at a
\* checkpoint decision; a write stores an epoch whose combined dev metric
\* strictly exceeds the best of the call so far, hence the metric of any
\* content written earlier in the same call; after each decision the best of
\* the call is the maximum of 0 and the call's metrics so far, and once it
\* exceeds 0 the file holds an epoch of this call with exactly that metric.
\* A call that has not written yet leaves the file as the call before left it.
C14_OverwriteImprovesWithinCall ==
  [][/\ pc # "checkpoint" => (ckpt' = ckpt /\ ckpt_dev' = ckpt_dev)
     /\ pc = "checkpoint" =>
          /\ best_dev_acc' = Max(best_dev_acc, dev_acc)
          /\ saved' <=> dev_acc > best_dev_acc
          /\ saved' => ckpt_dev' = dev_acc /\ ckpt'.model = model
          /\ (saved' /\ best_dev_acc > 0) => dev_acc > ckpt_dev
          /\ ~saved' => (ckpt' = ckpt /\ ckpt_dev' = ckpt_dev)
     /\ pc = "init_model" => (pc' = "aborted" \/ best_dev_acc' = 0)
     /\ best_dev_acc' > 0 => (ckpt'.exists /\ ckpt_dev' = best_dev_acc')
    ]_vars

\* the fine-tuning call is about to replace the contrastive call's
\* checkpoint, whose metric was 3, with its first epoch, whose metric is 1
C14_Witness ==
  /\ call = "finetune"
  /\ pc = "checkpoint"
  /\ best_dev_acc = 0
  /\ ckpt.exists
  /\ ckpt_dev = 3
  /\ dev_acc = 1

\* C15: whenever a loss is about to be back-propagated, the loss
\* calculate_loss returned for each task of the batch depends on at least one
\* trainable parameter of the model, whatever the option it was built with
\* and whatever the objective of the call; so no backward pass aborts.
C15_EveryLossIsTrainable ==
  /\ pc = "backward" =>
       \A t \in Tasks : RequiresGrad(config, t, Unsupervised, Supervised)
  /\ pc = "seq_backward" =>
       RequiresGrad(config, SeqOrder[cur], Unsupervised, Supervised)

\* C16: in every mode, nothing is accumulated in the gradients while the
\* losses of a batch are computed and until its backward pass, and at every
\* optimizer step exactly the backward pass of the current batch is
\* accumulated: no backward pass of an earlier batch, of an earlier trainer
\* or of an earlier epoch is left in them.
C16_StepUsesCurrentBatchOnly ==
  /\ pc \in {"loss", "backward", "seq_loss", "seq_backward"} => grad_acc = 0
  /\ pc \in {"step", "seq_step"} => (grad_acc = 1 /\ backward_n >= 1)

\* the second trainer of the second epoch of a sequential run is about to
\* step, after earlier steps of this optimizer
C16_Witness ==
  /\ do_sequential
  /\ pc = "seq_step"
  /\ epoch = 1
  /\ cur = 2
  /\ optim >= 2
  /\ grad_acc = 1

====
